---- MODULE Spec2Model ----
(***************************************************************************)
(* Model of src/youtube.py: the process-wide rate limiter around           *)
(* rate_limited_api_call, one run of YouTubeDataFetcher.fetch_data against *)
(* the remote API, which is the environment of the model, and the run of   *)
(* main around it.                                                         *)
(***************************************************************************)
EXTENDS Integers, Sequences, FiniteSets, TLC

(***************************************************************************)
(* Program constants.                                                      *)
(***************************************************************************)
ONE_MINUTE == 60
MAX_REQUESTS_PER_MINUTE == 60

(***************************************************************************)
(* Bounds of the model.                                                    *)
(***************************************************************************)
\* calls a driver submits to rate_limited_api_call in the limiter specification
MaxCalls == 62
\* how many of those calls arrive after a non-zero delay
MaxDelays == 1

\* time that may pass before a call arrives: none, one unit, or just less
\* than a whole period
Delays == {0, 1, ONE_MINUTE - 1}
\* time.sleep may return late
Oversleep == {0, 1}

VARIABLES
    now,              \* the clock read by the limiter
    last_reset,       \* RateLimitDecorator.last_reset
    num_calls,        \* RateLimitDecorator.num_calls
    blocked,          \* the caller is inside sleep_and_retry's loop, after a sleep
    calls_submitted,  \* history: calls of rate_limited_api_call begun
    calls_executed,   \* history: executions of the wrapped func
    calls_returned,   \* history: calls of rate_limited_api_call that returned func's result
    delays_used,      \* history: calls that arrived after a non-zero delay
    dispatch_times,   \* history: the clock at each execution of func
    blocked_from,     \* history: <<time, last_reset>> at the first rejection of the pending call
    pc,               \* position of the running operation
    channel_url,      \* fetch_data's argument
    max_comments,     \* fetch_data's argument
    handle,           \* channel_input.handle
    channel_id,       \* fetch_data's channel_id, <<>> before get_channel_id returns
    videos,           \* get_videos' accumulator
    next_page_token,  \* get_videos' next_page_token
    video_ids,        \* fetch_data's video_ids
    chunk_start,      \* get_video_details' loop variable i
    video_data,       \* get_video_details' accumulator
    videos_df,        \* fetch_data's videos (validated Video records)
    comment_idx,      \* how many of video_ids fetch_data's comment loop has done
    comments_raw,     \* fetch_data's comments_raw
    comments_df,      \* fetch_data's comments (validated Comment records)
    error,            \* the exception that ended the run, kind "None" while there is none
    returned,         \* history: the operations that have returned normally
    requests,         \* history: the requests sent to the API, in order
    pages_served,     \* history: the item lists of the video-search pages served
    last_response,    \* history: the API's answer to the latest request
    comment_failures, \* history: the videos whose comment-thread request failed
    threads_served,   \* history: the comment threads the API has served
    last_comments,    \* history: what the latest get_comments call returned
    comment_results,  \* history: what each get_comments call returned, in call order
    tokens_served,    \* history: the nextPageToken of each video-search page served
    api_key,          \* main's api_key: args.api_key or the environment's, "" when neither
    exit_code,        \* the process's exit status, NotExited while it runs
    sheets            \* the sheets written to the ExcelWriter, in order

limiter == <<now, last_reset, num_calls, blocked>>
history == <<calls_submitted, calls_executed, calls_returned, delays_used,
             dispatch_times, blocked_from>>
inputs == <<channel_url, max_comments>>
fetch == <<handle, channel_id, videos, next_page_token, video_ids, chunk_start,
           video_data, videos_df, comment_idx, comments_raw, comments_df, error>>
apilog == <<returned, requests, pages_served, last_response, comment_failures,
            threads_served, last_comments, comment_results, tokens_served>>
process == <<api_key, exit_code, sheets>>
vars == <<limiter, history, pc, inputs, fetch, apilog, process>>

(***************************************************************************)
(* @limits(calls=MAX_REQUESTS_PER_MINUTE, period=ONE_MINUTE): one attempt  *)
(* at clock t.  The window is reset when the period has elapsed since      *)
(* last_reset, the attempt is counted, and it is admitted when the count   *)
(* does not exceed the quota.                                              *)
(***************************************************************************)
PeriodRemaining(t) == ONE_MINUTE - (t - last_reset)

WindowElapsed(t) == PeriodRemaining(t) <= 0

CallsAfterAttempt(t) == (IF WindowElapsed(t) THEN 0 ELSE num_calls) + 1

Admitted(t) == CallsAfterAttempt(t) <= MAX_REQUESTS_PER_MINUTE

\* the limiter's own state after an attempt at clock t, admitted or not
LimitsAttempt(t) ==
    /\ num_calls' = CallsAfterAttempt(t)
    /\ last_reset' = IF WindowElapsed(t) THEN t ELSE last_reset

\* sleep_and_retry retrying without the sleep
SleepUntilNoWait(t, late) == t + late

\* @sleep_and_retry: a rejected attempt sleeps for the rest of the period
SleepUntil(t, late) == t + PeriodRemaining(t) + late

(***************************************************************************)
(* The delay after which the next attempt is made.  A call of the driver   *)
(* of the limiter specification arrives after some delay; the calls of a   *)
(* fetch run are issued back to back; a retry is made as soon as the sleep *)
(* returns, which may be late under the driver.                            *)
(***************************************************************************)
ArrivalDelays ==
    IF blocked \/ pc # "limiter" THEN {0}
    ELSE {d \in Delays : d > 0 => delays_used < MaxDelays}

\* by how much a sleep returns late; the sleeps of a fetch run return on time
SleepLateness == IF pc = "limiter" THEN Oversleep ELSE {0}

\* a new call of rate_limited_api_call begins, or a sleeping one retries
Arrives(d) ==
    IF blocked
    THEN UNCHANGED <<calls_submitted, delays_used>>
    ELSE /\ delays_used' = delays_used + (IF d > 0 THEN 1 ELSE 0)
         /\ calls_submitted' = calls_submitted + 1

\* rate_limited_api_call(func), the attempt is admitted: func() is executed
\* and its result is returned to the caller, or its exception raised
Dispatch(t, raises) ==
    /\ Admitted(t)
    /\ LimitsAttempt(t)
    /\ now' = t
    /\ blocked' = FALSE
    /\ calls_executed' = calls_executed + 1
    /\ calls_returned' = calls_returned + (IF raises THEN 0 ELSE 1)
    /\ dispatch_times' = Append(dispatch_times, t)
    /\ UNCHANGED blocked_from

\* rate_limited_api_call(func), the attempt is rejected: RateLimitException
\* is caught by sleep_and_retry, which sleeps and loops
RateLimitSleep ==
    /\ pc \in {"limiter", "channel", "videos"}
    /\ \E d \in ArrivalDelays, late \in SleepLateness :
         /\ Arrives(d)
         /\ ~Admitted(now + d)
         /\ LimitsAttempt(now + d)
         /\ now' = SleepUntil(now + d, late)
         /\ blocked' = TRUE
         /\ blocked_from' = IF blocked THEN blocked_from ELSE <<now + d, last_reset>>
    /\ UNCHANGED <<calls_executed, calls_returned, dispatch_times, pc>>
    /\ UNCHANGED <<inputs, fetch, apilog, process>>

\* a caller of rate_limited_api_call other than fetch_data
ApiCall ==
    /\ pc = "limiter"
    /\ blocked \/ calls_submitted < MaxCalls
    /\ \E d \in ArrivalDelays :
         /\ Arrives(d)
         /\ Dispatch(now + d, FALSE)
    /\ UNCHANGED <<pc, inputs, fetch, apilog, process>>

(***************************************************************************)
(* Values exchanged with the API.                                          *)
(***************************************************************************)
Min(a, b) == IF a <= b THEN a ELSE b

Max(a, b) == IF a >= b THEN a ELSE b

\* Python's s[:n]
PrefixSlice(s, n) ==
    IF n >= 0 THEN SubSeq(s, 1, Min(n, Len(s)))
    ELSE SubSeq(s, 1, Max(Len(s) + n, 0))

\* the result of a list comprehension [f(x) for x in s]
SeqMap(F(_), s) == [k \in 1..Len(s) |-> F(s[k])]

RECURSIVE Concat(_)
\* the concatenation of a sequence of sequences
Concat(ss) == IF ss = <<>> THEN <<>> ELSE Head(ss) \o Concat(Tail(ss))

\* a numeric string of the API such as "12" or "-1"
Numeral(neg, digits) == [neg |-> neg, digits |-> digits]

RECURSIVE DigitsValue(_)
DigitsValue(ds) ==
    IF ds = <<>> THEN 0
    ELSE 10 * DigitsValue(SubSeq(ds, 1, Len(ds) - 1)) + ds[Len(ds)]

\* int(str)
ParseInt(str) == (IF str.neg THEN -1 ELSE 1) * DigitsValue(str.digits)

\* dict.get(key, default)
GetOr(dict, key, default) == IF key \in DOMAIN dict THEN dict[key] ELSE default

\* Field(min_length=11, max_length=11)
VIDEO_ID_LENGTH == 11

\* the n-th video identifier the API knows; length is the length of its text
VideoId(n) == [serial |-> n, length |-> VIDEO_ID_LENGTH]

\* comment ids: of the k-th thread of a video (r = 0) and of its r-th reply
CommentId(vid, k, r) == <<vid.serial, k, r>>

\* Python's None as a comment id
NoneId == <<>>

\* next_page_token = None, and the empty token, which is as falsy as None
NoneToken == -1
EmptyToken == 0

\* a test for None alone
FalsyNoneOnly(token) == token = NoneToken

\* `not next_page_token`
Falsy(token) == token \in {NoneToken, EmptyToken}

(***************************************************************************)
(* Bounds of the fetch run.                                                *)
(***************************************************************************)
\* video identifiers a channel has
MaxVideos == 2
\* video-search pages the API serves
MaxPages == 3
\* comment threads the videos of a channel have between them
MaxThreads == 2
\* replies of one thread
MaxReplies == 3
\* identifiers handed to get_video_details when it is called on its own
MaxIds == 101
\* videos of the comment loop of fetch_data when it is looked at on its own
MaxLoopVideos == 3

\* "H" stands for a scheme and host, the other elements for single characters
ChannelUrls == {<<"H", "@", "a">>, <<"a", "@", "a">>, <<"H", "@">>}

MaxCommentsChoices == {2, 101}

(***************************************************************************)
(* YouTubeChannelInput(url=channel_url, handle=channel_url.split("@")[-1]) *)
(***************************************************************************)
\* the position of the last "@" of url, 0 when there is none
LastAt(url) ==
    LET ats == {k \in 1..Len(url) : url[k] = "@"}
    IN  IF ats = {} THEN 0 ELSE CHOOSE k \in ats : \A j \in ats : j <= k

\* channel_url.split("@")[-1]
SplitHandle(url) == SubSeq(url, LastAt(url) + 1, Len(url))

\* url: HttpUrl
IsHttpUrl(url) == Len(url) >= 1 /\ url[1] = "H"

\* handle: str = Field(..., min_length=1)
ChannelInputValid(url, h) == IsHttpUrl(url) /\ Len(h) >= 1

(***************************************************************************)
(* The API's possible answers.                                             *)
(***************************************************************************)
HttpErrorResponse == [status |-> "HttpError"]

ChannelSearchResponses ==
    { HttpErrorResponse,
      [status |-> "ok", has_items |-> FALSE, items |-> <<>>],
      [status |-> "ok", has_items |-> TRUE, items |-> <<>>],
      [status |-> "ok", has_items |-> TRUE, items |-> <<"UC1", "UC2">>] }

\* a page of between 0 and the remaining number of fresh identifiers; a
\* continuation token is offered while fewer than MaxPages pages are served
VideoSearchResponses ==
    LET served == Len(videos)
        page == Len(pages_served) + 1
        tokens == {NoneToken, EmptyToken} \cup (IF page < MaxPages THEN {page} ELSE {})
    IN  {HttpErrorResponse} \cup
        { [status |-> "ok",
           items |-> [k \in 1..n |-> VideoId(served + k)],
           token |-> tok] : n \in 0..(MaxVideos - served), tok \in tokens }

FullStatistics ==
    [key \in {"viewCount", "likeCount", "commentCount"} |->
        CASE key = "viewCount" -> Numeral(FALSE, <<1, 2>>)
          [] key = "likeCount" -> Numeral(FALSE, <<3>>)
          [] key = "commentCount" -> Numeral(FALSE, <<0>>)]

\* the "items" of a videos.list response
VideoItem(vid, statistics) == [id |-> vid, statistics |-> statistics]

DetailsPatterns ==
    {"all", "omit_first", "no_like_count", "negative_count", "short_id", "HttpError"}

DetailsResponse(chunk, pattern) ==
    CASE pattern = "HttpError" -> HttpErrorResponse
      [] pattern = "all" ->
           [status |-> "ok", items |-> SeqMap(LAMBDA v : VideoItem(v, FullStatistics), chunk)]
      [] pattern = "omit_first" ->
           [status |-> "ok",
            items |-> SeqMap(LAMBDA v : VideoItem(v, FullStatistics), Tail(chunk))]
      [] pattern = "no_like_count" ->
           [status |-> "ok",
            items |-> SeqMap(LAMBDA v : VideoItem(v,
                        [key \in {"viewCount", "commentCount"} |-> FullStatistics[key]]), chunk)]
      [] pattern = "negative_count" ->
           [status |-> "ok",
            items |-> SeqMap(LAMBDA v : VideoItem(v,
                        [FullStatistics EXCEPT !["viewCount"] = Numeral(TRUE, <<1>>)]), chunk)]
      [] pattern = "short_id" ->
           [status |-> "ok",
            items |-> SeqMap(LAMBDA v : VideoItem([v EXCEPT !.length = VIDEO_ID_LENGTH - 1],
                                                  FullStatistics), chunk)]

\* the snippet of a comment or reply: its text, and its likeCount unless the
\* payload leaves it out
CommentSnippet(likes, with_likes) ==
    IF with_likes
    THEN [textDisplay |-> "text", likeCount |-> likes]
    ELSE [textDisplay |-> "text"]

\* what a comment thread may lack: nothing, the likeCount of its top-level
\* comment, or the likeCount of its last reply
LikeCountGaps == {"none", "top", "reply"}

\* a comment thread: its id, its top-level comment's snippet and its replies;
\* has_replies is `"replies" in item`
ThreadItem(vid, k, nreplies, gap) ==
    [id |-> CommentId(vid, k, 0),
     snippet |-> CommentSnippet(Numeral(FALSE, <<k>>), gap # "top"),
     has_replies |-> nreplies > 0,
     replies |-> [r \in 1..nreplies |->
                    [id |-> CommentId(vid, k, r),
                     snippet |-> CommentSnippet(Numeral(FALSE, <<0>>),
                                                ~(gap = "reply" /\ r = nreplies))]]]

\* a thread has no reply or MaxReplies replies
ReplyCounts == {0, MaxReplies}

\* a page of threads, of which the last may have a gap; a page as long as
\* the page size asked for carries a continuation token
CommentThreadResponses(vid, page_size) ==
    {HttpErrorResponse} \cup
    { [status |-> "ok",
       items |-> [k \in 1..Len(shape) |->
                    ThreadItem(vid, k, shape[k], IF k = Len(shape) THEN gap ELSE "none")],
       token |-> IF Len(shape) >= page_size THEN 1 ELSE NoneToken] :
        shape \in UNION {[1..n -> ReplyCounts] : n \in 0..(MaxThreads - threads_served)},
        gap \in LikeCountGaps }

(***************************************************************************)
(* YouTubeAPI's parsing and the record validation.                         *)
(***************************************************************************)
ZeroNumeral == Numeral(FALSE, <<0>>)

\* _parse_video_response, the validated fields
ParseVideoResponse(item) ==
    [video_id |-> item.id,
     view_count |-> ParseInt(GetOr(item.statistics, "viewCount", ZeroNumeral)),
     like_count |-> ParseInt(GetOr(item.statistics, "likeCount", ZeroNumeral)),
     comment_count |-> ParseInt(GetOr(item.statistics, "commentCount", ZeroNumeral))]

\* _parse_comment_response: comment["likeCount"] or reply_snippet["likeCount"]
\* raises KeyError when the key is absent
ParseCommentRaises(item) ==
    \/ "likeCount" \notin DOMAIN item.snippet
    \/ /\ item.has_replies
       /\ \E r \in 1..Len(item.replies) : "likeCount" \notin DOMAIN item.replies[r].snippet

\* _parse_comment_response appending the top-level comment after the replies
ParseCommentRepliesFirst(item, vid) ==
    (IF item.has_replies
     THEN SeqMap(LAMBDA reply : [video_id |-> vid,
                                 comment_id |-> reply.id,
                                 like_count |-> ParseInt(reply.snippet.likeCount),
                                 reply_to |-> item.id], item.replies)
     ELSE <<>>)
    \o <<[video_id |-> vid,
          comment_id |-> item.id,
          like_count |-> ParseInt(item.snippet.likeCount),
          reply_to |-> NoneId]>>

\* _parse_comment_response when it raises nothing: the top-level comment,
\* then the replies
ParseCommentResponse(item, vid) ==
    <<[video_id |-> vid,
       comment_id |-> item.id,
       like_count |-> ParseInt(item.snippet.likeCount),
       reply_to |-> NoneId]>>
    \o (IF item.has_replies
        THEN SeqMap(LAMBDA reply : [video_id |-> vid,
                                    comment_id |-> reply.id,
                                    like_count |-> ParseInt(reply.snippet.likeCount),
                                    reply_to |-> item.id], item.replies)
        ELSE <<>>)

\* a Video whose counts are not constrained
VideoValidIdOnly(v) == v.video_id.length = VIDEO_ID_LENGTH

\* class Video
VideoValid(v) ==
    /\ v.video_id.length = VIDEO_ID_LENGTH
    /\ v.view_count >= 0
    /\ v.like_count >= 0
    /\ v.comment_count >= 0

\* class Comment
CommentValid(c) ==
    /\ c.video_id.length = VIDEO_ID_LENGTH
    /\ c.like_count >= 0

(***************************************************************************)
(* get_video_details: range(0, len(video_ids), 50) and video_ids[i:i+50]   *)
(***************************************************************************)
BATCH_SIZE == 50

\* a slice that takes its end index too
ChunkInclusiveEnd(ids, i) == SubSeq(ids, i + 1, Min(i + BATCH_SIZE + 1, Len(ids)))

Chunk(ids, i) == SubSeq(ids, i + 1, Min(i + BATCH_SIZE, Len(ids)))

(***************************************************************************)
(* get_comments                                                            *)
(***************************************************************************)
COMMENT_PAGE_SIZE == 100

\* maxResults=max_comments
CommentPageSizeUncapped(max) == max

\* maxResults=min(100, max_comments)
CommentPageSize(max) == Min(COMMENT_PAGE_SIZE, max)

NoError == [kind |-> "None", arg |-> <<>>]

\* KeyError: 'likeCount'
LikeCountKeyError == [kind |-> "KeyError", arg |-> <<"likeCount">>]

RECURSIVE CollectComments(_, _, _, _, _)
\* the loop over response["items"] from the k-th item on, comments being acc:
\* the comments gathered and the exception that ended the loop, if any
CollectComments(items, k, acc, vid, max) ==
    IF k > Len(items) THEN [raised |-> NoError, comments |-> acc]
    ELSE IF ParseCommentRaises(items[k])
    THEN [raised |-> LikeCountKeyError, comments |-> acc]
    ELSE LET extended == acc \o ParseCommentResponse(items[k], vid)
         IN  IF Len(extended) >= max THEN [raised |-> NoError, comments |-> extended]
             ELSE CollectComments(items, k + 1, extended, vid, max)

\* `except HttpError as e`
ExceptClauseCatches(kind) == kind = "HttpError"

\* get_comments returning comments without the final slice
GetCommentsUnsliced(resp, vid, max) ==
    IF resp.status # "ok" THEN <<>>
    ELSE CollectComments(resp.items, 1, <<>>, vid, max).comments

\* what get_comments returns for a response, a caught failure included
GetCommentsResult(resp, vid, max) ==
    IF resp.status # "ok" THEN PrefixSlice(<<>>, max)
    ELSE PrefixSlice(CollectComments(resp.items, 1, <<>>, vid, max).comments, max)

\* the exception that leaves get_comments for a response, NoError when it
\* returns: a failed request is caught by the except clause or not, and an
\* exception of the parsing is not an HttpError
GetCommentsRaises(resp, vid, max) ==
    IF resp.status = "ok" THEN CollectComments(resp.items, 1, <<>>, vid, max).raised
    ELSE IF ExceptClauseCatches(resp.status) THEN NoError
    ELSE [kind |-> resp.status, arg |-> <<>>]

(***************************************************************************)
(* The run of fetch_data.                                                  *)
(***************************************************************************)
\* an exception leaves fetch_data
Raise(kind, arg) ==
    /\ error' = [kind |-> kind, arg |-> arg]
    /\ pc' = "failed"

Request(kind, arg, limited) == [kind |-> kind, arg |-> arg, limited |-> limited]

\* a message that does not name the handle
NotFoundMessageWithoutHandle(h) == <<"No channel found">>

\* what the ValueError of get_channel_id carries: f"No channel found: {handle}"
NotFoundMessage(h) == <<"No channel found: ">> \o h

\* the page assigned to videos instead of appended to it
ExtendVideosOverwrite(vs, items) == items

\* videos.extend([item["id"]["videoId"] for item in response["items"]])
ExtendVideos(vs, items) == vs \o items

\* `not response.get("items")`
ChannelNotFound(resp) == ~resp.has_items \/ resp.items = <<>>

\* fetch_data, lines 318-320
ValidateInput ==
    /\ pc = "validate"
    /\ handle' = SplitHandle(channel_url)
    /\ IF ChannelInputValid(channel_url, handle')
       THEN pc' = "channel" /\ UNCHANGED error
       ELSE Raise("ValidationError", <<>>)
    /\ UNCHANGED <<limiter, history, inputs, apilog, process>>
    /\ UNCHANGED <<channel_id, videos, next_page_token, video_ids, chunk_start,
                   video_data, videos_df, comment_idx, comments_raw, comments_df>>

\* get_channel_id, its rate-limited call admitted
GetChannelId ==
    /\ pc = "channel"
    /\ \E d \in ArrivalDelays, resp \in ChannelSearchResponses :
         /\ Arrives(d)
         /\ Dispatch(now + d, resp.status = "HttpError")
         /\ requests' = Append(requests, Request("search_channel", handle, TRUE))
         /\ last_response' = resp
         /\ IF resp.status = "HttpError"
            THEN /\ Raise("HttpError", <<>>)
                 /\ UNCHANGED <<channel_id, returned>>
            ELSE IF ChannelNotFound(resp)
            THEN /\ Raise("ValueError", NotFoundMessage(handle))
                 /\ UNCHANGED <<channel_id, returned>>
            ELSE /\ channel_id' = resp.items[1]
                 /\ returned' = returned \cup {"get_channel_id"}
                 /\ pc' = "videos"
                 /\ UNCHANGED error
    /\ UNCHANGED <<inputs, process>>
    /\ UNCHANGED <<pages_served, comment_failures, threads_served, last_comments,
                   comment_results, tokens_served>>
    /\ UNCHANGED <<handle, videos, next_page_token, video_ids, chunk_start,
                   video_data, videos_df, comment_idx, comments_raw, comments_df>>

\* the handler logging the error without raising it again
VideosErrorSwallowed ==
    /\ error' = [kind |-> "HttpError", arg |-> <<>>]
    /\ UNCHANGED pc

\* get_videos, lines 134-136: the error is logged and raised again
VideosErrorHandler == Raise("HttpError", <<>>)

\* get_videos, one iteration of its loop, the rate-limited call admitted
GetVideosPage ==
    /\ pc = "videos"
    /\ \E d \in ArrivalDelays, resp \in VideoSearchResponses :
         /\ Arrives(d)
         /\ Dispatch(now + d, resp.status = "HttpError")
         /\ requests' = Append(requests, Request("search_videos", next_page_token, TRUE))
         /\ last_response' = resp
         /\ IF resp.status = "HttpError"
            THEN /\ VideosErrorHandler
                 /\ UNCHANGED <<videos, next_page_token, video_ids, returned, pages_served,
                                tokens_served>>
            ELSE /\ videos' = ExtendVideos(videos, resp.items)
                 /\ next_page_token' = resp.token
                 /\ pages_served' = Append(pages_served, resp.items)
                 /\ tokens_served' = Append(tokens_served, resp.token)
                 /\ UNCHANGED error
                 /\ IF Falsy(resp.token)
                    THEN /\ video_ids' = videos'
                         /\ returned' = returned \cup {"get_videos"}
                         /\ pc' = "details"
                    ELSE UNCHANGED <<video_ids, returned, pc>>
    /\ UNCHANGED <<inputs, process>>
    /\ UNCHANGED <<comment_failures, threads_served, last_comments, comment_results>>
    /\ UNCHANGED <<handle, channel_id, chunk_start, video_data, videos_df,
                   comment_idx, comments_raw, comments_df>>

\* get_video_details, one iteration of its loop
GetVideoDetailsBatch ==
    /\ pc = "details"
    /\ chunk_start < Len(video_ids)
    /\ \E pattern \in DetailsPatterns :
         LET chunk == Chunk(video_ids, chunk_start)
             resp == DetailsResponse(chunk, pattern)
         IN  /\ requests' = Append(requests, Request("list_videos", chunk, FALSE))
             /\ last_response' = resp
             /\ IF resp.status = "HttpError"
                THEN /\ Raise("HttpError", <<>>)
                     /\ UNCHANGED <<video_data, chunk_start>>
                ELSE /\ video_data' = video_data \o SeqMap(ParseVideoResponse, resp.items)
                     /\ chunk_start' = chunk_start + BATCH_SIZE
                     /\ UNCHANGED <<pc, error>>
    /\ UNCHANGED <<limiter, history, inputs, process>>
    /\ UNCHANGED <<returned, pages_served, comment_failures, threads_served, last_comments,
                   comment_results, tokens_served>>
    /\ UNCHANGED <<handle, channel_id, videos, next_page_token, video_ids,
                   videos_df, comment_idx, comments_raw, comments_df>>

\* get_video_details returns video_data; fetch_data, line 325
BuildVideos ==
    /\ pc = "details"
    /\ chunk_start >= Len(video_ids)
    /\ returned' = returned \cup {"get_video_details"}
    /\ IF \A k \in 1..Len(video_data) : VideoValid(video_data[k])
       THEN /\ videos_df' = video_data
            /\ pc' = "comments"
            /\ UNCHANGED error
       ELSE /\ Raise("ValidationError", <<>>)
            /\ UNCHANGED videos_df
    /\ UNCHANGED <<limiter, history, inputs, process>>
    /\ UNCHANGED <<requests, pages_served, last_response, comment_failures,
                   threads_served, last_comments, comment_results, tokens_served>>
    /\ UNCHANGED <<handle, channel_id, videos, next_page_token, video_ids, chunk_start,
                   video_data, comment_idx, comments_raw, comments_df>>

\* `for video_id in video_ids`, reading the list from its end
NextCommentVideoReversed(ids, idx) == ids[Len(ids) - idx]

\* `for video_id in video_ids`: the video of the iteration after idx iterations
NextCommentVideo(ids, idx) == ids[idx + 1]

\* fetch_data, lines 328-329: get_comments for the next video
GetComments ==
    /\ pc = "comments"
    /\ comment_idx < Len(video_ids)
    /\ LET vid == NextCommentVideo(video_ids, comment_idx)
           page_size == CommentPageSize(max_comments)
       IN  \E resp \in CommentThreadResponses(vid, page_size) :
             LET raised == GetCommentsRaises(resp, vid, max_comments)
             IN  /\ requests' = Append(requests,
                        Request("list_comment_threads",
                                [video_id |-> vid, max_results |-> page_size],
                                FALSE))
                 /\ last_response' = resp
                 /\ threads_served' = threads_served
                        + (IF resp.status = "ok" THEN Len(resp.items) ELSE 0)
                 /\ comment_failures' = comment_failures
                        \cup (IF resp.status = "ok" THEN {} ELSE {vid})
                 /\ IF raised = NoError
                    THEN /\ last_comments' = GetCommentsResult(resp, vid, max_comments)
                         /\ comment_results' = Append(comment_results, last_comments')
                         /\ comments_raw' = comments_raw \o last_comments'
                         /\ comment_idx' = comment_idx + 1
                         /\ UNCHANGED <<pc, error>>
                    ELSE /\ Raise(raised.kind, raised.arg)
                         /\ UNCHANGED <<last_comments, comment_results, comments_raw,
                                        comment_idx>>
    /\ UNCHANGED <<limiter, history, inputs, process>>
    /\ UNCHANGED <<returned, pages_served, tokens_served>>
    /\ UNCHANGED <<handle, channel_id, videos, next_page_token, video_ids, chunk_start,
                   video_data, videos_df, comments_df>>

\* fetch_data, lines 331-342: the Comment records are validated, the videos
\* frame's published_date column is read (a frame built from no record has
\* no column) and both frames are returned
BuildFrames ==
    /\ pc = "comments"
    /\ comment_idx >= Len(video_ids)
    /\ IF \E k \in 1..Len(comments_raw) : ~CommentValid(comments_raw[k])
       THEN /\ Raise("ValidationError", <<>>)
            /\ UNCHANGED <<comments_df, returned>>
       ELSE /\ comments_df' = comments_raw
            /\ IF videos_df = <<>>
               THEN /\ Raise("KeyError", <<"published_date">>)
                    /\ UNCHANGED returned
               ELSE /\ pc' = "done"
                    /\ returned' = returned \cup {"fetch_data"}
                    /\ UNCHANGED error
    /\ UNCHANGED <<limiter, history, inputs, process>>
    /\ UNCHANGED <<requests, pages_served, last_response, comment_failures,
                   threads_served, last_comments, comment_results, tokens_served>>
    /\ UNCHANGED <<handle, channel_id, videos, next_page_token, video_ids, chunk_start,
                   video_data, videos_df, comment_idx, comments_raw>>

(***************************************************************************)
(* main and setup_cli around fetch_data.                                   *)
(***************************************************************************)
\* exit_code while the process runs
NotExited == -1

\* args.api_key or os.getenv("YOUTUBE_API_KEY"): a key, or nothing
ApiKeys == {"", "key"}

VIDEO_SHEET == "Video Data"
COMMENT_SHEET == "Comments Data"

\* setup_cli: without an API key the error is logged and the process exits
SetupCli ==
    /\ pc = "setup"
    /\ IF api_key = ""
       THEN exit_code' = 1 /\ pc' = "exited"
       ELSE pc' = "construct" /\ UNCHANGED exit_code
    /\ UNCHANGED <<api_key, sheets>>
    /\ UNCHANGED <<limiter, history, inputs, fetch, apilog>>

\* main, line 371: YouTubeDataFetcher(api_key), that is YouTubeAPI(api_key)
NewFetcher ==
    /\ pc = "construct"
    /\ IF api_key = ""
       THEN Raise("ValueError", <<"Invalid API key">>)
       ELSE pc' = "validate" /\ UNCHANGED error
    /\ UNCHANGED <<limiter, history, inputs, apilog, process>>
    /\ UNCHANGED <<handle, channel_id, videos, next_page_token, video_ids, chunk_start,
                   video_data, videos_df, comment_idx, comments_raw, comments_df>>

\* main, line 375: videos.to_excel(writer, sheet_name="Video Data")
WriteVideoSheet ==
    /\ pc = "done"
    /\ sheets' = Append(sheets, VIDEO_SHEET)
    /\ pc' = "video_sheet_written"
    /\ UNCHANGED <<api_key, exit_code>>
    /\ UNCHANGED <<limiter, history, inputs, fetch, apilog>>

\* main, line 376: comments.to_excel(writer, sheet_name="Comments Data")
WriteCommentSheet ==
    /\ pc = "video_sheet_written"
    /\ sheets' = Append(sheets, COMMENT_SHEET)
    /\ pc' = "sheets_written"
    /\ UNCHANGED <<api_key, exit_code>>
    /\ UNCHANGED <<limiter, history, inputs, fetch, apilog>>

\* main returns after the with block: the process ends with status 0
MainReturn ==
    /\ pc = "sheets_written"
    /\ exit_code' = 0
    /\ pc' = "exited"
    /\ UNCHANGED <<api_key, sheets>>
    /\ UNCHANGED <<limiter, history, inputs, fetch, apilog>>

\* an except clause that logs the error and lets main return
MainExceptReturns ==
    /\ pc = "failed"
    /\ exit_code' = 0
    /\ pc' = "exited"
    /\ UNCHANGED <<api_key, sheets>>
    /\ UNCHANGED <<limiter, history, inputs, fetch, apilog>>

\* main, lines 380-382: `except Exception as e`, the error is logged and
\* sys.exit(1)
MainExcept ==
    /\ pc = "failed"
    /\ exit_code' = 1
    /\ pc' = "exited"
    /\ UNCHANGED <<api_key, sheets>>
    /\ UNCHANGED <<limiter, history, inputs, fetch, apilog>>

\* the limiter and its history when the process starts
FreshLimiter ==
    /\ now = 0
    /\ last_reset = 0
    /\ num_calls = 0
    /\ blocked = FALSE
    /\ calls_submitted = 0
    /\ calls_executed = 0
    /\ calls_returned = 0
    /\ delays_used = 0
    /\ dispatch_times = <<>>
    /\ blocked_from = <<>>

\* main's part of the state while fetch_data is looked at on its own
MainNotModelled ==
    /\ api_key = "key"
    /\ exit_code = NotExited
    /\ sheets = <<>>

\* the locals of fetch_data and the history of its requests before it starts
FetchNotStarted ==
    /\ handle = <<>>
    /\ channel_id = ""
    /\ videos = <<>>
    /\ next_page_token = NoneToken
    /\ video_ids = <<>>
    /\ chunk_start = 0
    /\ video_data = <<>>
    /\ videos_df = <<>>
    /\ comment_idx = 0
    /\ comments_raw = <<>>
    /\ comments_df = <<>>
    /\ error = NoError
    /\ returned = {}
    /\ requests = <<>>
    /\ pages_served = <<>>
    /\ last_response = [status |-> "none"]
    /\ comment_failures = {}
    /\ threads_served = 0
    /\ last_comments = <<>>
    /\ comment_results = <<>>
    /\ tokens_served = <<>>

(***************************************************************************)
(* The limiter under an arbitrary caller.                                  *)
(***************************************************************************)
InitLimiter ==
    /\ FreshLimiter
    /\ FetchNotStarted
    /\ MainNotModelled
    /\ channel_url = <<>>
    /\ max_comments = 1
    /\ pc = "limiter"

NextLimiter == ApiCall \/ RateLimitSleep

SpecLimiter == InitLimiter /\ [][NextLimiter]_vars

\* the retry of a sleeping caller is never postponed for ever
FairSpecLimiter == SpecLimiter /\ WF_vars(ApiCall)

(***************************************************************************)
(* A run of fetch_data.  The limiter is process-wide: the run starts with  *)
(* one that has one call left in its window, so that a rate-limited call   *)
(* of the run is made to sleep.  A run with a fresh limiter is the run of  *)
(* main below.                                                             *)
(***************************************************************************)
Init ==
    /\ now = 0
    /\ last_reset = 0
    /\ num_calls = MAX_REQUESTS_PER_MINUTE - 1
    /\ blocked = FALSE
    /\ calls_submitted = num_calls
    /\ calls_executed = num_calls
    /\ calls_returned = num_calls
    /\ delays_used = 0
    /\ dispatch_times = [k \in 1..num_calls |-> 0]
    /\ blocked_from = <<>>
    /\ FetchNotStarted
    /\ MainNotModelled
    /\ channel_url \in ChannelUrls
    /\ max_comments \in MaxCommentsChoices
    /\ pc = "validate"

Next ==
    \/ ValidateInput
    \/ GetChannelId
    \/ GetVideosPage
    \/ RateLimitSleep
    \/ GetVideoDetailsBatch
    \/ BuildVideos
    \/ GetComments
    \/ BuildFrames

Spec == Init /\ [][Next]_vars

(***************************************************************************)
(* get_video_details called on its own with a list of N identifiers.       *)
(***************************************************************************)
InitDetails ==
    /\ FreshLimiter
    /\ handle = <<>>
    /\ channel_id = ""
    /\ videos = <<>>
    /\ next_page_token = NoneToken
    /\ \E n \in 0..MaxIds : video_ids = [k \in 1..n |-> VideoId(k)]
    /\ chunk_start = 0
    /\ video_data = <<>>
    /\ videos_df = <<>>
    /\ comment_idx = 0
    /\ comments_raw = <<>>
    /\ comments_df = <<>>
    /\ error = NoError
    /\ returned = {}
    /\ requests = <<>>
    /\ pages_served = <<>>
    /\ last_response = [status |-> "none"]
    /\ comment_failures = {}
    /\ threads_served = 0
    /\ last_comments = <<>>
    /\ comment_results = <<>>
    /\ tokens_served = <<>>
    /\ MainNotModelled
    /\ channel_url = <<>>
    /\ max_comments = 1
    /\ pc = "details"

NextDetails == GetVideoDetailsBatch \/ BuildVideos

SpecDetails == InitDetails /\ [][NextDetails]_vars

(***************************************************************************)
(* The comment loop of fetch_data on its own, entered with the Video       *)
(* records of up to MaxLoopVideos enumerated videos.                       *)
(***************************************************************************)
InitComments ==
    /\ FreshLimiter
    /\ MainNotModelled
    /\ channel_url = <<"H", "@", "a">>
    /\ max_comments \in MaxCommentsChoices
    /\ handle = <<"a">>
    /\ channel_id = "UC1"
    /\ \E n \in 1..MaxLoopVideos : video_ids = [k \in 1..n |-> VideoId(k)]
    /\ videos = video_ids
    /\ next_page_token = NoneToken
    /\ chunk_start = BATCH_SIZE
    /\ video_data = SeqMap(LAMBDA v : ParseVideoResponse(VideoItem(v, FullStatistics)),
                           video_ids)
    /\ videos_df = video_data
    /\ comment_idx = 0
    /\ comments_raw = <<>>
    /\ comments_df = <<>>
    /\ error = NoError
    /\ returned = {"get_channel_id", "get_videos", "get_video_details"}
    /\ requests = <<>>
    /\ pages_served = <<>>
    /\ last_response = [status |-> "none"]
    /\ comment_failures = {}
    /\ threads_served = 0
    /\ last_comments = <<>>
    /\ comment_results = <<>>
    /\ tokens_served = <<>>
    /\ pc = "comments"

NextComments == GetComments \/ BuildFrames

SpecComments == InitComments /\ [][NextComments]_vars

(***************************************************************************)
(* A run of main.  The process starts with a fresh limiter, and a run      *)
(* makes fewer rate-limited calls than the quota of a window, so that no   *)
(* call of the run is made to sleep.                                       *)
(***************************************************************************)
InitMain ==
    /\ FreshLimiter
    /\ FetchNotStarted
    /\ api_key \in ApiKeys
    /\ exit_code = NotExited
    /\ sheets = <<>>
    /\ channel_url \in ChannelUrls
    /\ max_comments \in MaxCommentsChoices
    /\ pc = "setup"

NextMain ==
    \/ SetupCli
    \/ NewFetcher
    \/ ValidateInput
    \/ GetChannelId
    \/ GetVideosPage
    \/ GetVideoDetailsBatch
    \/ BuildVideos
    \/ GetComments
    \/ BuildFrames
    \/ WriteVideoSheet
    \/ WriteCommentSheet
    \/ MainReturn
    \/ MainExcept

SpecMain == InitMain /\ [][NextMain]_vars

(***************************************************************************)
(* C1: no interval of 60 time units contains more than 60 dispatched       *)
(* calls: any 61 consecutive dispatches span at least a whole period.      *)
(***************************************************************************)
C1_RollingWindowQuota ==
    \A k \in 1..(Len(dispatch_times) - MAX_REQUESTS_PER_MINUTE) :
        dispatch_times[k + MAX_REQUESTS_PER_MINUTE] - dispatch_times[k] >= ONE_MINUTE

(***************************************************************************)
(* C3: a call submitted when the quota is exhausted is never dropped or    *)
(* rejected.  Every call submitted so far has either been executed exactly *)
(* once and has returned, or is the one call that is waiting and has not   *)
(* been executed; a waiting caller has slept to the end of the window that *)
(* rejected it, where its retry is admitted; and a waiting call is         *)
(* eventually executed.                                                    *)
(***************************************************************************)
C3_ExactlyOnce ==
    /\ calls_executed = calls_returned
    /\ calls_submitted = calls_executed + (IF blocked THEN 1 ELSE 0)
    /\ Len(dispatch_times) = calls_executed

C3_Blocks ==
    blocked =>
        /\ now >= blocked_from[2] + ONE_MINUTE
        /\ Admitted(now)

C3_BlockedCallExecutedOnce ==
    /\ [](C3_ExactlyOnce /\ C3_Blocks)
    /\ blocked ~> (~blocked /\ calls_executed = calls_submitted)

\* a call that found the quota exhausted has been executed after the window
\* that rejected it
C3_Witness ==
    /\ pc = "limiter"
    /\ ~blocked
    /\ blocked_from # <<>>
    /\ calls_executed = calls_submitted
    /\ calls_executed > MAX_REQUESTS_PER_MINUTE
    /\ dispatch_times[Len(dispatch_times)] >= blocked_from[2] + ONE_MINUTE
    /\ dispatch_times[Len(dispatch_times)] > blocked_from[1]

(***************************************************************************)
(* The requests of each kind, in the order they were sent.                 *)
(***************************************************************************)
RequestsOfKind(kind) == SelectSeq(requests, LAMBDA r : r.kind = kind)

LastRequestKind == IF requests = <<>> THEN "none" ELSE requests[Len(requests)].kind

(***************************************************************************)
(* C2: every outbound request of a fetch run (channel search, video-search *)
(* page, details batch, comment-thread request) is dispatched through      *)
(* rate_limited_api_call.                                                  *)
(***************************************************************************)
C2_AllRequestsRateLimited ==
    \A k \in 1..Len(requests) : requests[k].limited

(***************************************************************************)
(* C4: when every page but the last carries a next-page token and no       *)
(* request fails, get_videos stops at the first page without a token and   *)
(* returns the concatenation of the pages' identifiers in page order.      *)
(***************************************************************************)
C4_AllPagesConcatenated ==
    /\ "get_videos" \in returned =>
         /\ video_ids = Concat(pages_served)
         /\ Len(RequestsOfKind("search_videos")) = Len(pages_served)
         /\ Falsy(next_page_token)
    /\ (pc = "videos" /\ pages_served # <<>>) => ~Falsy(next_page_token)
    /\ (LastRequestKind = "search_videos" /\ last_response.status = "ok"
            /\ Falsy(last_response.token)) => "get_videos" \in returned

\* two pages, each with an identifier, have been enumerated
C4_Witness ==
    /\ "get_videos" \in returned
    /\ Len(pages_served) = 2
    /\ pages_served[1] # <<>>
    /\ pages_served[2] # <<>>
    /\ video_ids = pages_served[1] \o pages_served[2]

(***************************************************************************)
(* C5: for N identifiers get_video_details issues ceil(N/50) details       *)
(* requests when none fails, each of at most 50 identifiers, and the       *)
(* requests' identifier lists are the consecutive chunks of the input.     *)
(***************************************************************************)
CeilDiv(n, d) == (n + d - 1) \div d

DetailsChunks == SeqMap(LAMBDA r : r.arg, RequestsOfKind("list_videos"))

C5_DetailsBatches ==
    /\ \A k \in 1..Len(DetailsChunks) :
         /\ Len(DetailsChunks[k]) <= 50
         /\ Len(DetailsChunks[k]) >= 1
    /\ Concat(DetailsChunks) = SubSeq(video_ids, 1, Len(Concat(DetailsChunks)))
    /\ "get_video_details" \in returned =>
         /\ Len(DetailsChunks) = CeilDiv(Len(video_ids), 50)
         /\ Concat(DetailsChunks) = video_ids

\* a list of more than 100 identifiers has been fetched in three requests
C5_Witness ==
    /\ "get_video_details" \in returned
    /\ Len(video_ids) > 100
    /\ Len(DetailsChunks) = 3
    /\ Len(DetailsChunks[3]) < 50

(***************************************************************************)
(* C6: get_comments returns at most max_comments records, whatever the     *)
(* response holds and whether or not the request fails.                    *)
(***************************************************************************)
C6_AtMostMaxComments ==
    max_comments > 0 => Len(last_comments) <= max_comments

\* the number of comments and replies of a response
RecordsIn(items) ==
    Len(Concat(SeqMap(LAMBDA item : <<item.id>> \o item.replies, items)))

\* a response with more records than max_comments has been cut to max_comments
C6_Witness ==
    /\ LastRequestKind = "list_comment_threads"
    /\ last_response.status = "ok"
    /\ RecordsIn(last_response.items) > max_comments
    /\ Len(last_comments) = max_comments

(***************************************************************************)
(* C7: when the comment-thread request succeeds, get_comments returns the  *)
(* first min(max_comments, T) records of the flattened thread list: each   *)
(* thread's top-level comment followed by its replies in API order.        *)
(***************************************************************************)
RECURSIVE FlatIds(_)
\* the ids of the flattened thread list
FlatIds(items) ==
    IF items = <<>> THEN <<>>
    ELSE <<Head(items).id>>
         \o [r \in 1..Len(Head(items).replies) |-> Head(items).replies[r].id]
         \o FlatIds(Tail(items))

C7_FirstRecordsOfFlattenedThreads ==
    (LastRequestKind = "list_comment_threads" /\ last_response.status = "ok") =>
        LET flat == FlatIds(last_response.items)
        IN  /\ Len(last_comments) = Min(max_comments, Len(flat))
            /\ \A k \in 1..Len(last_comments) : last_comments[k].comment_id = flat[k]

(***************************************************************************)
(* C8: a comment-thread request that fails with an API error makes         *)
(* get_comments return an empty list and raise nothing, and once a request *)
(* has failed so, fetch_data goes on to send the comment request of every  *)
(* remaining enumerated video, in order: its comment loop ends only after  *)
(* one request per video, and the records it has gathered are those of the *)
(* videos whose request did not fail.                                      *)
(***************************************************************************)
CommentRequestVideos ==
    SeqMap(LAMBDA r : r.arg.video_id, RequestsOfKind("list_comment_threads"))

C8_CommentFailureIsolated ==
    /\ (LastRequestKind = "list_comment_threads" /\ last_response.status = "HttpError") =>
         /\ last_comments = <<>>
         /\ error.kind # "HttpError"
    /\ \A k \in 1..Len(comments_raw) : comments_raw[k].video_id \notin comment_failures
    /\ CommentRequestVideos = SubSeq(video_ids, 1, Len(CommentRequestVideos))
    /\ (comment_failures # {} /\ pc # "comments") => CommentRequestVideos = video_ids

(***************************************************************************)
(* C9: an API error on a video-search page or on a details batch is fatal  *)
(* and not retried: the run has failed with that error, the failed request *)
(* is the last one sent, get_videos (get_video_details) has returned no    *)
(* list, and no request of a later phase has been issued.                  *)
(***************************************************************************)
C9_EnumerationAndDetailsErrorsFatal ==
    /\ (LastRequestKind = "search_videos" /\ last_response.status = "HttpError") =>
         /\ pc = "failed"
         /\ error.kind = "HttpError"
         /\ "get_videos" \notin returned
         /\ video_ids = <<>>
         /\ RequestsOfKind("list_videos") = <<>>
         /\ RequestsOfKind("list_comment_threads") = <<>>
         /\ "fetch_data" \notin returned
    /\ (LastRequestKind = "list_videos" /\ last_response.status = "HttpError") =>
         /\ pc = "failed"
         /\ error.kind = "HttpError"
         /\ "get_video_details" \notin returned
         /\ videos_df = <<>>
         /\ Len(RequestsOfKind("list_videos")) = (chunk_start \div BATCH_SIZE) + 1
         /\ RequestsOfKind("list_comment_threads") = <<>>
         /\ "fetch_data" \notin returned
    /\ pc = "failed" => ~ENABLED GetVideosPage /\ ~ENABLED GetVideoDetailsBatch

\* the second video-search page failed after the first had brought an
\* identifier: the run has failed and the identifier was not returned
C9_Witness ==
    /\ pc = "failed"
    /\ LastRequestKind = "search_videos"
    /\ last_response.status = "HttpError"
    /\ Len(RequestsOfKind("search_videos")) = 2
    /\ videos # <<>>
    /\ video_ids = <<>>

(***************************************************************************)
(* C10: a channel search without items makes get_channel_id fail with a    *)
(* not-found error that carries the handle, after exactly one search       *)
(* request; fetch_data issues no other request and returns no collections. *)
(***************************************************************************)
C10_ChannelNotFoundFatal ==
    /\ (LastRequestKind = "search_channel" /\ last_response.status = "ok"
          /\ (~last_response.has_items \/ last_response.items = <<>>)) =>
         /\ pc = "failed"
         /\ error.kind = "ValueError"
    /\ error.kind = "ValueError" =>
         /\ pc = "failed"
         /\ handle = SplitHandle(channel_url)
         /\ \E k \in 1..Len(error.arg) : SubSeq(error.arg, k, Len(error.arg)) = handle
         /\ requests = <<Request("search_channel", handle, TRUE)>>
         /\ returned = {}
         /\ videos_df = <<>>
         /\ comments_df = <<>>
         /\ ~ENABLED Next

\* the search answered with an empty item list and the run failed
C10_Witness ==
    /\ pc = "failed"
    /\ error.kind = "ValueError"
    /\ last_response.status = "ok"
    /\ last_response.has_items
    /\ last_response.items = <<>>
    /\ Len(requests) = 1

RepliesHaveTheirParent(records) ==
    \A k \in 1..Len(records) :
        \/ records[k].reply_to = NoneId
        \/ \E j \in 1..Len(records) :
             /\ records[j].comment_id = records[k].reply_to
             /\ records[j].reply_to = NoneId
             /\ records[j].video_id = records[k].video_id

C12_ReplyToRefersToReturnedComment ==
    /\ RepliesHaveTheirParent(last_comments)
    /\ "fetch_data" \in returned => RepliesHaveTheirParent(comments_df)

\* fetch_data has returned comments among which a thread of three replies
\* was cut to its top-level comment and its first reply
C12_Witness ==
    /\ "fetch_data" \in returned
    /\ max_comments = 2
    /\ Len(comments_df) = 2
    /\ comments_df[1].reply_to = NoneId
    /\ comments_df[2].reply_to = comments_df[1].comment_id
    /\ LastRequestKind = "list_comment_threads"
    /\ last_response.status = "ok"
    /\ last_response.items # <<>>
    /\ Len(last_response.items[1].replies) = MaxReplies

(***************************************************************************)
(* C13: every numeric field of a normalized record is 0 when its key is    *)
(* absent from the payload, and the normalization raises nothing: a video  *)
(* item without statistics.viewCount, likeCount or commentCount gets the   *)
(* count 0, and a top-level comment or a reply without likeCount gets      *)
(* like_count 0.                                                           *)
(***************************************************************************)
RECURSIVE FlatComments(_)
\* the comments of the flattened thread list, as the payload has them
FlatComments(items) ==
    IF items = <<>> THEN <<>>
    ELSE <<[id |-> Head(items).id, snippet |-> Head(items).snippet]>>
         \o Head(items).replies
         \o FlatComments(Tail(items))

C13_AbsentNumericFieldsAreZero ==
    /\ (LastRequestKind = "list_videos" /\ last_response.status = "ok") =>
         /\ Len(video_data) >= Len(last_response.items)
         /\ \A k \in 1..Len(last_response.items) :
              LET item == last_response.items[k]
                  parsed == video_data[Len(video_data) - Len(last_response.items) + k]
              IN  /\ "viewCount" \notin DOMAIN item.statistics => parsed.view_count = 0
                  /\ "likeCount" \notin DOMAIN item.statistics => parsed.like_count = 0
                  /\ "commentCount" \notin DOMAIN item.statistics => parsed.comment_count = 0
    /\ (LastRequestKind = "list_comment_threads" /\ last_response.status = "ok") =>
         /\ error # LikeCountKeyError
         /\ LET flat == FlatComments(last_response.items)
            IN  \A k \in 1..Len(last_comments) :
                    "likeCount" \notin DOMAIN flat[k].snippet => last_comments[k].like_count = 0

(***************************************************************************)
(* C14: every Video record of the videos collection has a video_id of 11   *)
(* characters and view_count, like_count and comment_count of at least 0;  *)
(* when get_video_details has returned a record that violates this,        *)
(* fetch_data has failed with a validation error and returned nothing.     *)
(***************************************************************************)
C14_VideoRecordsValid ==
    /\ \A k \in 1..Len(videos_df) :
         /\ videos_df[k].video_id.length = 11
         /\ videos_df[k].view_count >= 0
         /\ videos_df[k].like_count >= 0
         /\ videos_df[k].comment_count >= 0
    /\ ("get_video_details" \in returned
          /\ \E k \in 1..Len(video_data) :
               \/ video_data[k].video_id.length # 11
               \/ video_data[k].view_count < 0
               \/ video_data[k].like_count < 0
               \/ video_data[k].comment_count < 0) =>
         /\ pc = "failed"
         /\ error.kind = "ValidationError"
         /\ videos_df = <<>>
         /\ "fetch_data" \notin returned

\* a details item with a negative viewCount has made the run fail
C14_Witness ==
    /\ pc = "failed"
    /\ error.kind = "ValidationError"
    /\ "get_video_details" \in returned
    /\ \E k \in 1..Len(video_data) : video_data[k].view_count < 0

(***************************************************************************)
(* C15: the requests of a run are sent phase after phase: the channel      *)
(* search, then video-search pages, then details batches, then             *)
(* comment-thread requests; a run that succeeds has sent one channel       *)
(* search, a video-search request per page, the details batches of all     *)
(* identifiers and one comment-thread request per enumerated identifier in *)
(* enumeration order, and its comments are the per-video results           *)
(* concatenated in that order.                                             *)
(***************************************************************************)
PhaseOf(kind) ==
    CASE kind = "search_channel" -> 1
      [] kind = "search_videos" -> 2
      [] kind = "list_videos" -> 3
      [] kind = "list_comment_threads" -> 4

C15_RequestsInPhaseOrder ==
    /\ \A k \in 1..(Len(requests) - 1) :
         PhaseOf(requests[k].kind) <= PhaseOf(requests[k + 1].kind)
    /\ Len(RequestsOfKind("search_channel")) <= 1
    /\ "fetch_data" \in returned =>
         /\ Len(RequestsOfKind("search_channel")) = 1
         /\ Len(RequestsOfKind("search_videos")) = Len(pages_served)
         /\ Len(pages_served) >= 1
         /\ video_ids = Concat(pages_served)
         /\ Concat(DetailsChunks) = video_ids
         /\ CommentRequestVideos = video_ids
         /\ Len(comment_results) = Len(video_ids)
         /\ \A k \in 1..Len(video_ids) :
              \A j \in 1..Len(comment_results[k]) :
                  comment_results[k][j].video_id = video_ids[k]
         /\ comments_df = Concat(comment_results)

\* a run over two videos, each with comments, has succeeded
C15_Witness ==
    /\ "fetch_data" \in returned
    /\ Len(video_ids) = 2
    /\ Len(requests) >= 5
    /\ comment_results[1] # <<>>
    /\ comment_results[2] # <<>>

(***************************************************************************)
(* C16: in the collections fetch_data returns, every Comment record's      *)
(* video_id is the video_id of a Video record of the videos collection,    *)
(* whatever the details responses hold.                                    *)
(***************************************************************************)
C16_CommentsReferToReturnedVideos ==
    "fetch_data" \in returned =>
        \A k \in 1..Len(comments_df) :
            \E j \in 1..Len(videos_df) : videos_df[j].video_id = comments_df[k].video_id

(***************************************************************************)
(* C17: the first thread of a served comment page, of n replies, is        *)
(* normalized without an exception to n+1 records: the top-level comment   *)
(* with the thread's id and reply_to null, then the replies in API order   *)
(* with their own ids and reply_to the thread's id, all with the video_id  *)
(* of the call; these are the records get_comments starts its result with. *)
(***************************************************************************)
C17_ThreadNormalizesToRecords ==
    (LastRequestKind = "list_comment_threads" /\ last_response.status = "ok"
        /\ last_response.items # <<>>) =>
        LET item == last_response.items[1]
            vid == requests[Len(requests)].arg.video_id
            n == Len(item.replies)
        IN  /\ ~ParseCommentRaises(item)
            /\ error # LikeCountKeyError
            /\ LET recs == ParseCommentResponse(item, vid)
               IN  /\ Len(recs) = n + 1
                   /\ recs[1].comment_id = item.id
                   /\ recs[1].reply_to = NoneId
                   /\ \A r \in 1..n :
                        /\ recs[r + 1].comment_id = item.replies[r].id
                        /\ recs[r + 1].reply_to = item.id
                   /\ \A k \in 1..(n + 1) : recs[k].video_id = vid
                   /\ \A k \in 1..(n + 1) :
                        k <= max_comments =>
                            /\ Len(last_comments) >= k
                            /\ last_comments[k] = recs[k]

(***************************************************************************)
(* C18: the first video-search request of get_videos carries no            *)
(* continuation token and every later one the token of the response before *)
(* it, which is not empty; a response with a non-empty token is followed   *)
(* by a further request and a response without one ends get_videos; the    *)
(* requests are as many as the pages consumed, a failed last request       *)
(* aside.                                                                  *)
(***************************************************************************)
NoToken(token) == token = NoneToken \/ token = EmptyToken

C18_ContinuationTokenProtocol ==
    LET reqs == RequestsOfKind("search_videos")
        failed_request == /\ LastRequestKind = "search_videos"
                          /\ last_response.status = "HttpError"
    IN  /\ reqs # <<>> => reqs[1].arg = NoneToken
        /\ Len(tokens_served) = Len(pages_served)
        /\ Len(reqs) = Len(pages_served) + (IF failed_request THEN 1 ELSE 0)
        /\ \A k \in 2..Len(reqs) :
             /\ reqs[k].arg = tokens_served[k - 1]
             /\ ~NoToken(tokens_served[k - 1])
        /\ \A k \in 1..(Len(tokens_served) - 1) : ~NoToken(tokens_served[k])
        /\ "get_videos" \in returned <=>
             (tokens_served # <<>> /\ NoToken(tokens_served[Len(tokens_served)]))
        /\ "get_videos" \in returned => Len(reqs) = Len(pages_served)
        /\ (tokens_served # <<>> /\ ~NoToken(tokens_served[Len(tokens_served)])
              /\ ~failed_request) =>
             /\ pc = "videos"
             /\ next_page_token = tokens_served[Len(tokens_served)]
             /\ ENABLED (GetVideosPage \/ RateLimitSleep)
        /\ "get_videos" \in returned => ~ENABLED GetVideosPage

\* three pages were consumed with three requests, the first two pages
\* carrying tokens and the third an empty one
C18_Witness ==
    /\ "get_videos" \in returned
    /\ Len(RequestsOfKind("search_videos")) = 3
    /\ Len(tokens_served) = 3
    /\ tokens_served[3] = EmptyToken
    /\ RequestsOfKind("search_videos")[3].arg = tokens_served[2]

(***************************************************************************)
(* C19: each call of get_comments sends exactly one comment-thread         *)
(* request, for its video, asking for min(100, max_comments) threads, and  *)
(* none for a continuation token: the requests sent are one per call, for  *)
(* the enumerated videos in order, a token in a response notwithstanding.  *)
(***************************************************************************)
C19_OneCommentRequestPerCall ==
    LET reqs == RequestsOfKind("list_comment_threads")
        raised_call == IF error = LikeCountKeyError THEN 1 ELSE 0
    IN  /\ \A k \in 1..Len(reqs) :
             /\ reqs[k].arg.max_results = (IF max_comments < 100 THEN max_comments ELSE 100)
             /\ DOMAIN reqs[k].arg = {"video_id", "max_results"}
        /\ Len(reqs) = Len(comment_results) + raised_call
        /\ Len(comment_results) = comment_idx
        /\ \A k \in 1..Len(reqs) : reqs[k].arg.video_id = video_ids[k]

\* the only video's page of two threads carried a continuation token and
\* the run has ended after that one request
C19_Witness ==
    /\ pc = "done"
    /\ Len(video_ids) = 1
    /\ LastRequestKind = "list_comment_threads"
    /\ last_response.status = "ok"
    /\ last_response.token # NoneToken
    /\ Len(RequestsOfKind("list_comment_threads")) = 1
    /\ RequestsOfKind("list_comment_threads")[1].arg.max_results = 2

(***************************************************************************)
(* C20: when the channel resolves and the enumeration yields no video      *)
(* identifier, fetch_data sends no details request and no comment-thread   *)
(* request and does not fail: it returns an empty videos collection and an *)
(* empty comments collection.                                              *)
(***************************************************************************)
C20_EmptyChannelSucceeds ==
    ("get_videos" \in returned /\ video_ids = <<>>) =>
        /\ RequestsOfKind("list_videos") = <<>>
        /\ RequestsOfKind("list_comment_threads") = <<>>
        /\ pc # "failed"
        /\ error = NoError
        /\ "fetch_data" \in returned => (videos_df = <<>> /\ comments_df = <<>>)

====
